---------------------------- MODULE Spec2Model ----------------------------
(***************************************************************************)
(* Habit and productivity tracker (MayankManojAg/Progress-Tracker).        *)
(*                                                                         *)
(* State: the 365 day records and the 12 monthly goals held by the App     *)
(* component (src/App.tsx), the two documents it keeps in localStorage,    *)
(* the tab it shows and the order of the array it caches for monthlyData.  *)
(* Operations: the mount of the component, handleHabitChange,              *)
(* handleMetricChange, updateGoal and setActiveTab; each is followed by    *)
(* the render and the effects it triggers.  Derived values:                *)
(* calculateStreak (src/utils/calculations.ts), the totals, the average,   *)
(* the productivity score and the monthly grid (src/App.tsx).              *)
(*                                                                         *)
(* Init is the fresh store after the mount: nothing was saved, so          *)
(* generateInitialData and the default goals, both saved by the effects.   *)
(* SpecStart begins before the mount, from what localStorage may hold.     *)
(* The locale of the runtime, which toLocaleString('default', ...) falls   *)
(* back to, is en-US except in SpecLocale, which draws it.                 *)
(*                                                                         *)
(* Numbers: hours and goals are integers here (the inputs are drawn from   *)
(* integer strings).  A JavaScript quotient is kept exact as a fraction    *)
(* n/d with d > 0; d = 0 encodes the non-finite values: 1/0 is Infinity,   *)
(* -1/0 is -Infinity and 0/0 is NaN.                                       *)
(***************************************************************************)
EXTENDS Integers, Sequences, FiniteSets, TLC

VARIABLES
    records,           \* useState: the day records
    goals,             \* useState: month name -> MonthlyGoal
    localStorage,      \* key -> the item stored under it
    status,            \* "start" before the mount, then "running" or "crashed"
    activeTab,         \* useState: the tab shown
    monthlyDataOrder,  \* the month fields of the array useMemo caches for
                       \* monthlyData, in the order of that array
    locale             \* the default locale of the runtime

vars ==
    <<records, goals, localStorage, status, activeTab, monthlyDataOrder,
      locale>>

-----------------------------------------------------------------------------
(* Program constants *)

\* the loop bound of generateInitialData
NumDays == 365

MaxHours == 24

DefaultStudyTarget == 150

DefaultWasteLimit == 30

HabitKeys == {"noPorn", "workout", "ipmatStudy", "nightWalk"}

MetricKeys == {"studyHours", "timeWasted"}

GoalFields == {"studyTarget", "wasteLimit"}

monthsList ==
    << "January", "February", "March", "April", "May", "June", "July",
       "August", "September", "October", "November", "December" >>

MonthNames == {monthsList[i] : i \in 1..Len(monthsList)}

-----------------------------------------------------------------------------
(* Bounds of the model *)

\* The days a session edits are the first days of the year (January) and
\* the last record (day 365, in December); the ids 0 and NumDays + 1 match
\* no record.

\* the first days whose habits SpecStreak edits
MaxStreakDays == 3

\* the first days that SpecHours edits
MaxHoursDays == 2

-----------------------------------------------------------------------------
(* Dates: new Date(year, 0, 1) plus (i - 1) days, formatted by formatDate   *)
(* as "Jan 1, 2025": kept as the three parts of that string.               *)

IsLeap(y) == (y % 4 = 0 /\ y % 100 # 0) \/ y % 400 = 0

DaysInMonth(y) ==
    << 31, IF IsLeap(y) THEN 29 ELSE 28, 31, 30, 31, 30, 31, 31, 30, 31, 30, 31 >>

ShortMonths ==
    << "Jan", "Feb", "Mar", "Apr", "May", "Jun", "Jul", "Aug", "Sep", "Oct",
       "Nov", "Dec" >>

RECURSIVE DateOfDay(_, _, _)
\* the date i days into month m of year y (i >= 1), rolling over month ends
DateOfDay(y, m, i) ==
    IF i <= DaysInMonth(y)[m]
    THEN [month |-> ShortMonths[m], day |-> i, year |-> y]
    ELSE DateOfDay(y, m + 1, i - DaysInMonth(y)[m])

formatDate(y, i) == DateOfDay(y, 1, i)

Locales == {"en-US", "es-ES"}

\* the long month names toLocaleString gives in each locale
LongMonths ==
    [ l \in Locales |->
        IF l = "en-US"
        THEN << "January", "February", "March", "April", "May", "June",
                "July", "August", "September", "October", "November",
                "December" >>
        ELSE << "enero", "febrero", "marzo", "abril", "mayo", "junio",
                "julio", "agosto", "septiembre", "octubre", "noviembre",
                "diciembre" >> ]

\* new Date(dateStr).toLocaleString('default', {month: 'long'}): 'default'
\* names no locale, so the runtime's default locale is used
getMonthName(date) ==
    LET k == CHOOSE j \in 1..12 : ShortMonths[j] = date.month
    IN  LongMonths[locale][k]

-----------------------------------------------------------------------------
(* localStorage and JSON.  An item is what getItem returns for a key: null *)
(* when nothing is stored, and otherwise a string, which is either the     *)
(* JSON text of a value or a text that JSON.parse rejects.  The values     *)
(* stringified here hold booleans, strings and finite numbers only, which  *)
(* JSON text keeps as they are.                                            *)

RecordsKey == "mastery_tracker_365_data_v2"

GoalsKey == "mastery_tracker_goals"

\* getItem on a key that was never set
Null == [kind |-> "null", value |-> << >>]

\* a stored string, not empty, that is not JSON text
Unparseable == [kind |-> "text", value |-> << >>]

JSONstringify(v) == [kind |-> "json", value |-> v]

\* JSON.parse: the value of a JSON text, a SyntaxError on any other string
JSONparse(item) ==
    IF item.kind = "json"
    THEN [throws |-> FALSE, value |-> item.value]
    ELSE [throws |-> TRUE, value |-> << >>]

\* the condition of saved ? ... : ...
Truthy(item) == item.kind # "null"

Tabs == {"dashboard", "spreadsheet", "analytics"}

-----------------------------------------------------------------------------
(* generateInitialData and the initial goals *)

CurrentYear == 2025

\* generateInitialData with noPorn: true in every record
generateInitialDataDone(year) ==
    [ i \in 1..NumDays |->
        [ id |-> i,
          dayNumber |-> i,
          date |-> formatDate(year, i),
          habits |-> [h \in HabitKeys |-> h = "noPorn"],
          metrics |-> [m \in MetricKeys |-> 0],
          isFilled |-> FALSE ] ]

generateInitialData(year) ==
    [ i \in 1..NumDays |->
        [ id |-> i,
          dayNumber |-> i,
          date |-> formatDate(year, i),
          habits |-> [h \in HabitKeys |-> FALSE],
          metrics |-> [m \in MetricKeys |-> 0],
          isFilled |-> FALSE ] ]

initialGoals ==
    [ m \in MonthNames |->
        [ month |-> m,
          studyTarget |-> DefaultStudyTarget,
          wasteLimit |-> DefaultWasteLimit ] ]

\* the state after the mount on an empty localStorage: the two effects of
\* lines 42-48 have saved the initial values
Init ==
    /\ records = generateInitialData(CurrentYear)
    /\ goals = initialGoals
    /\ localStorage =
          [k \in {RecordsKey, GoalsKey} |->
              IF k = RecordsKey
              THEN JSONstringify(generateInitialData(CurrentYear))
              ELSE JSONstringify(initialGoals)]
    /\ status = "running"
    /\ activeTab = "dashboard"
    /\ monthlyDataOrder = monthsList
    /\ locale = "en-US"

-----------------------------------------------------------------------------
(* calculateStreak *)

\* one iteration of the loop of lines 9-16 on record r
\* MaxStep without the comparison and assignment of line 13
MaxStepNoCompare(st, r, habit) ==
    IF r.habits[habit]
    THEN [tempStreak |-> st.tempStreak + 1, maxStreak |-> st.maxStreak]
    ELSE [tempStreak |-> 0, maxStreak |-> st.maxStreak]

MaxStep(st, r, habit) ==
    IF r.habits[habit]
    THEN [tempStreak |-> st.tempStreak + 1, maxStreak |-> st.maxStreak]
    ELSE [tempStreak |-> 0,
          maxStreak |-> IF st.tempStreak > st.maxStreak
                        THEN st.tempStreak ELSE st.maxStreak]

RECURSIVE MaxLoop(_, _, _, _, _)
\* the iterations i = lo .. hi of the loop, in order, from the loop state st
\* (the range is halved to keep the evaluation shallow; the iterations run
\* left to right, each from the state the one before it left)
MaxLoop(recs, habit, lo, hi, st) ==
    IF lo > hi THEN st
    ELSE IF lo = hi THEN MaxStep(st, recs[lo], habit)
    ELSE LET mid == (lo + hi) \div 2
             left == MaxLoop(recs, habit, lo, mid, st)
         IN  IF left = left           \* true: has TLC evaluate left first
             THEN MaxLoop(recs, habit, mid + 1, hi, left)
             ELSE left

\* MaxScan without the comparison of line 17 after the loop
MaxScanNoFinal(recs, habit, first) ==
    MaxLoop(recs, habit, first, Len(recs),
            [tempStreak |-> 0, maxStreak |-> 0]).maxStreak

\* MaxScan whose line 17 takes the run that reaches the last record whenever
\* there is one, without comparing it with maxStreak
MaxScanLastRun(recs, habit, first) ==
    LET st == MaxLoop(recs, habit, first, Len(recs),
                      [tempStreak |-> 0, maxStreak |-> 0])
    IN  IF st.tempStreak > 0 THEN st.tempStreak ELSE st.maxStreak

\* lines 5-17: the loop from index first, then the last comparison
MaxScan(recs, habit, first) ==
    LET st == MaxLoop(recs, habit, first, Len(recs),
                      [tempStreak |-> 0, maxStreak |-> 0])
    IN  IF st.tempStreak > st.maxStreak THEN st.tempStreak ELSE st.maxStreak

RECURSIVE InsertDesc(_, _)
\* r put into s, which is in descending dayNumber order, after the records
\* that do not come after it (a stable sort)
InsertDesc(s, r) ==
    IF s = << >> THEN << r >>
    ELSE IF Head(s).dayNumber >= r.dayNumber
         THEN << Head(s) >> \o InsertDesc(Tail(s), r)
         ELSE << r >> \o s

RECURSIVE SortDesc(_, _)
\* .sort((a, b) => b.dayNumber - a.dayNumber): s[1..i] inserted into acc
SortDesc(s, acc) ==
    IF s = << >> THEN acc ELSE SortDesc(Tail(s), InsertDesc(acc, Head(s)))

RECURSIVE InsertAsc(_, _)
InsertAsc(s, r) ==
    IF s = << >> THEN << r >>
    ELSE IF Head(s).dayNumber <= r.dayNumber
         THEN << Head(s) >> \o InsertAsc(Tail(s), r)
         ELSE << r >> \o s

RECURSIVE SortAsc(_, _)
SortAsc(s, acc) ==
    IF s = << >> THEN acc ELSE SortAsc(Tail(s), InsertAsc(acc, Head(s)))

\* filledSorted with the comparator a.dayNumber - b.dayNumber
filledSortedAsc(recs) ==
    SortAsc(SelectSeq(recs, LAMBDA r : r.isFilled), << >>)

filledSorted(recs) ==
    SortDesc(SelectSeq(recs, LAMBDA r : r.isFilled), << >>)

RECURSIVE CurrentScanNoBreak(_, _, _)
\* CurrentScan going on to the next record where line 33 breaks
CurrentScanNoBreak(sorted, habit, current) ==
    IF sorted = << >> THEN current
    ELSE IF Head(sorted).habits[habit]
         THEN CurrentScanNoBreak(Tail(sorted), habit, current + 1)
         ELSE CurrentScanNoBreak(Tail(sorted), habit, current)

RECURSIVE CurrentScan(_, _, _)
\* the loop of lines 29-35
CurrentScan(sorted, habit, current) ==
    IF sorted = << >> THEN current
    ELSE IF Head(sorted).habits[habit]
         THEN CurrentScan(Tail(sorted), habit, current + 1)
         ELSE current

\* calculateStreak whose filter of lines 20-21 keeps only the filled records
\* whose flag habit is true
calculateStreakHabitDays(recs, habit) ==
    LET maxStreak == MaxScan(recs, habit, 1)
        sorted == SortDesc(SelectSeq(recs,
                      LAMBDA r : r.isFilled /\ r.habits[habit]), << >>)
    IN  IF Len(sorted) = 0
        THEN [current |-> 0, max |-> maxStreak]
        ELSE [current |-> CurrentScan(sorted, habit, 0), max |-> maxStreak]

\* calculateStreak with the first loop starting at the second record
calculateStreakSkipFirst(recs, habit) ==
    LET maxStreak == MaxScan(recs, habit, 2)
        sorted == filledSorted(recs)
    IN  IF Len(sorted) = 0
        THEN [current |-> 0, max |-> maxStreak]
        ELSE [current |-> CurrentScan(sorted, habit, 0), max |-> maxStreak]

calculateStreak(recs, habit) ==
    LET maxStreak == MaxScan(recs, habit, 1)
        sorted == filledSorted(recs)
    IN  IF Len(sorted) = 0
        THEN [current |-> 0, max |-> maxStreak]
        ELSE [current |-> CurrentScan(sorted, habit, 0), max |-> maxStreak]

\* the array after a calculateStreak that sorts records itself, with no
\* filter before: the records in descending dayNumber order
recordsSortedInPlace(recs, habit) ==
    [i \in 1..Len(recs) |-> recs[Len(recs) + 1 - i]]

\* the array records after calculateStreak(records, habit) returns: the loop
\* of lines 9-16 only reads it, and the sort of line 22 sorts the new array
\* that filter returned
recordsAfterCalculateStreak(recs, habit) == recs

-----------------------------------------------------------------------------
(* Parsing the text of an input *)

\* A string is a sequence of characters.  parseFloat on an optional sign and
\* a run of decimal digits: the number they spell, NaN when no digit leads
\* (the empty string, "abc"); what follows the digits is ignored.
Digits == << "0", "1", "2", "3", "4", "5", "6", "7", "8", "9" >>

IsDigit(c) == \E i \in 1..Len(Digits) : Digits[i] = c

DigitValue(c) == (CHOOSE i \in 1..Len(Digits) : Digits[i] = c) - 1

RECURSIVE ParseDigits(_, _, _)
ParseDigits(s, acc, seen) ==
    IF s # << >> /\ IsDigit(Head(s))
    THEN ParseDigits(Tail(s), 10 * acc + DigitValue(Head(s)), TRUE)
    ELSE [nan |-> ~seen, v |-> acc]

ParseFloat(raw) ==
    IF raw # << >> /\ Head(raw) = "-"
    THEN LET p == ParseDigits(Tail(raw), 0, FALSE)
         IN  [nan |-> p.nan, v |-> -p.v]
    ELSE ParseDigits(raw, 0, FALSE)

\* parseFloat(value) || 0
ParseOrZero(raw) ==
    LET p == ParseFloat(raw) IN IF p.nan \/ p.v = 0 THEN 0 ELSE p.v

Min(a, b) == IF a <= b THEN a ELSE b

Max(a, b) == IF a >= b THEN a ELSE b

-----------------------------------------------------------------------------
(* JavaScript numbers: a fraction [n, d] with d > 0, or d = 0 for the       *)
(* non-finite values (n = 1: Infinity, n = -1: -Infinity, n = 0: NaN).      *)

Num(k) == [n |-> k, d |-> 1]

Sign(k) == IF k > 0 THEN 1 ELSE IF k < 0 THEN -1 ELSE 0

IsFinite(q) == q.d # 0

\* x / y for two finite integers
JsDiv(x, y) ==
    IF y = 0 THEN [n |-> Sign(x), d |-> 0]
    ELSE IF y > 0 THEN [n |-> x, d |-> y]
    ELSE [n |-> -x, d |-> -y]

\* 1 - q
OneMinus(q) ==
    IF q.d = 0 THEN [n |-> -q.n, d |-> 0] ELSE [n |-> q.d - q.n, d |-> q.d]

\* q * 100
Times100(q) == IF q.d = 0 THEN q ELSE [n |-> 100 * q.n, d |-> q.d]

\* Math.round: the nearest integer, a half rounded up
MathRound(q) ==
    IF q.d = 0 THEN q ELSE Num((2 * q.n + q.d) \div (2 * q.d))

\* Math.max(0, q): NaN if q is NaN
MathMax0(q) ==
    IF q.d = 0 THEN (IF q.n = -1 THEN Num(0) ELSE q)
    ELSE IF q.n < 0 THEN Num(0) ELSE q

\* (n / d).toFixed(1) for n >= 0 and d > 0, in tenths
ToFixed1(n, d) == (20 * n + d) \div (2 * d)

-----------------------------------------------------------------------------
(* Derived state (App.tsx lines 51-91) *)

RECURSIVE SumLoop(_, _, _, _, _)
\* the steps lo .. hi of recs.reduce((acc, r) => acc + r.metrics[metric]),
\* in order, from the accumulator acc (the range is halved as in MaxLoop)
SumLoop(recs, metric, lo, hi, acc) ==
    IF lo > hi THEN acc
    ELSE IF lo = hi THEN acc + recs[lo].metrics[metric]
    ELSE LET mid == (lo + hi) \div 2
             left == SumLoop(recs, metric, lo, mid, acc)
         IN  IF left = left           \* true: has TLC evaluate left first
             THEN SumLoop(recs, metric, mid + 1, hi, left)
             ELSE left

\* SumMetric with the reduce stopping before the last record
SumMetricSkipLast(recs, metric) == SumLoop(recs, metric, 1, Len(recs) - 1, 0)

\* recs.reduce((acc, r) => acc + r.metrics[metric], 0)
SumMetric(recs, metric) == SumLoop(recs, metric, 1, Len(recs), 0)

\* completedDays counting the records that hold study hours
completedDaysStudied(recs) ==
    Len(SelectSeq(recs, LAMBDA r : r.metrics["studyHours"] > 0))

completedDays(recs) == Len(SelectSeq(recs, LAMBDA r : r.isFilled))

\* the 365 of line 174 and the totalDays={365} of line 212
TotalDays == 365

\* Math.min(100, q): NaN if q is NaN
MathMin100(q) ==
    IF q.d = 0 THEN (IF q.n = 1 THEN Num(100) ELSE q)
    ELSE IF q.n > 100 * q.d THEN Num(100) ELSE q

\* the Annual Goal of the sidebar, line 174
annualGoal(completed) == MathRound(Times100(JsDiv(completed, TotalDays)))

\* percentage of the ProgressTracker component
ProgressTrackerPercentage(completed, totalDays) ==
    MathMin100(MathRound(Times100(JsDiv(completed, totalDays))))

streaks(recs) == [h \in HabitKeys |-> calculateStreak(recs, h)]

totalStudyHours(recs) == SumMetric(recs, "studyHours")

totalWastedHours(recs) == SumMetric(recs, "timeWasted")

\* the number 0, or the string toFixed(1) returns, read in tenths
avgStudyPerDay(recs) ==
    LET filled == SelectSeq(recs, LAMBDA r : r.isFilled)
    IN  IF Len(filled) = 0
        THEN [type |-> "number", tenths |-> 0]
        ELSE [type |-> "string",
              tenths |-> ToFixed1(totalStudyHours(recs), Len(filled))]

\* productivityScore without the guard of line 69
productivityScoreNoGuard(recs) ==
    MathRound(Times100(JsDiv(totalStudyHours(recs),
                 totalStudyHours(recs) + totalWastedHours(recs))))

productivityScore(recs) ==
    IF totalStudyHours(recs) + totalWastedHours(recs) = 0 THEN Num(0)
    ELSE MathRound(Times100(JsDiv(totalStudyHours(recs),
                     totalStudyHours(recs) + totalWastedHours(recs))))

\* the divisions a computation evaluates, as <<numerator, denominator>>
ProductivityDivisions(recs) ==
    IF totalStudyHours(recs) + totalWastedHours(recs) = 0 THEN {}
    ELSE {<<totalStudyHours(recs),
            totalStudyHours(recs) + totalWastedHours(recs)>>}

AvgDivisions(recs) ==
    IF completedDays(recs) = 0 THEN {}
    ELSE {<<totalStudyHours(recs), completedDays(recs)>>}

MonthStats(recs, m) ==
    LET mine == SelectSeq(recs, LAMBDA r : getMonthName(r.date) = m)
    IN  [study |-> SumMetric(mine, "studyHours"),
         wasted |-> SumMetric(mine, "timeWasted")]

\* Math.floor
MathFloor(q) == IF q.d = 0 THEN q ELSE Num(q.n \div q.d)

\* Achievement with Math.floor for Math.round
AchievementFloor(study, studyTarget) ==
    IF study >= studyTarget THEN Num(100)
    ELSE MathFloor(Times100(JsDiv(study, studyTarget)))

Achievement(study, studyTarget) ==
    IF study >= studyTarget THEN Num(100)
    ELSE MathRound(Times100(JsDiv(study, studyTarget)))

WasteCompliance(wasted, wasteLimit) ==
    IF wasted <= wasteLimit THEN Num(100)
    ELSE MathMax0(MathRound(Times100(
             OneMinus(JsDiv(wasted - wasteLimit, wasteLimit)))))

MonthEntry(recs, gls, m) ==
    LET stats == MonthStats(recs, m)
        goal == gls[m]
    IN  [month |-> m,
         actualStudy |-> stats.study,
         goalStudy |-> goal.studyTarget,
         actualWaste |-> stats.wasted,
         limitWaste |-> goal.wasteLimit,
         achievement |-> Achievement(stats.study, goal.studyTarget),
         wasteCompliance |-> WasteCompliance(stats.wasted, goal.wasteLimit)]

monthlyData(recs, gls) ==
    [k \in 1..Len(monthsList) |-> MonthEntry(recs, gls, monthsList[k])]

\* the divisions one month's entry evaluates
MonthDivisions(recs, gls, m) ==
    LET stats == MonthStats(recs, m)
        goal == gls[m]
    IN  (IF stats.study >= goal.studyTarget THEN {}
         ELSE {<<stats.study, goal.studyTarget>>})
        \cup
        (IF stats.wasted <= goal.wasteLimit THEN {}
         ELSE {<<stats.wasted - goal.wasteLimit, goal.wasteLimit>>})

-----------------------------------------------------------------------------
(* The render and the effects that follow a state change *)

\* monthlyDataMonths with entries for the months that have hours only
monthlyDataMonthsLogged(recs) ==
    SelectSeq(monthsList,
              LAMBDA m : MonthStats(recs, m).study + MonthStats(recs, m).wasted > 0)

\* the month fields of the array monthsList.map(m => ...) returns, lines
\* 74-90: one entry for each element of monthsList, in its order
monthlyDataMonths(recs) == [k \in 1..Len(monthsList) |-> monthsList[k]]

RECURSIVE InsertByStudy(_, _, _)
\* month m put into s, which is in descending order of study, after the
\* months that do not come after it (a stable sort)
InsertByStudy(s, m, study) ==
    IF s = << >> THEN << m >>
    ELSE IF study[Head(s)] >= study[m]
         THEN << Head(s) >> \o InsertByStudy(Tail(s), m, study)
         ELSE << m >> \o s

RECURSIVE SortByStudy(_, _, _)
SortByStudy(s, acc, study) ==
    IF s = << >> THEN acc
    ELSE SortByStudy(Tail(s), InsertByStudy(acc, Head(s), study), study)

\* line 491: monthlyData.sort((a, b) => b.actualStudy - a.actualStudy),
\* which sorts the cached array itself; order is the array's order before
TopMonthSort(order, recs) ==
    LET study == [m \in MonthNames |-> MonthStats(recs, m).study]
    IN  IF study = study              \* true: has TLC evaluate study once
        THEN SortByStudy(order, << >>, study)
        ELSE order

\* the order of the cached array after a render that found it in order:
\* only the analytics tab (lines 352-500) evaluates line 491
Render(recs, order, tab) ==
    IF tab = "analytics" THEN TopMonthSort(order, recs) ELSE order

\* recordsEffect saving the records as they were before the change
recordsEffectBefore(recs) ==
    localStorage' =
        [localStorage EXCEPT ![RecordsKey] = JSONstringify(records)]

\* the effect of lines 42-44 with the value the render before it saw
recordsEffect(recs) ==
    localStorage' = [localStorage EXCEPT ![RecordsKey] = JSONstringify(recs)]

\* the effect of lines 46-48
goalsEffect(gls) ==
    localStorage' = [localStorage EXCEPT ![GoalsKey] = JSONstringify(gls)]

\* the cached array as the charts and the summary of lines 424-491 read it
monthlyDataMemo ==
    [k \in 1..Len(monthlyDataOrder) |->
        MonthEntry(records, goals, monthlyDataOrder[k])]

\* what follows setRecords: the render recomputes monthlyData from the new
\* records, then the effect saves them
afterSetRecords ==
    /\ monthlyDataOrder' =
          Render(records', monthlyDataMonths(records'), activeTab)
    /\ recordsEffect(records')
    /\ UNCHANGED <<goals, status, activeTab, locale>>

\* what follows setGoals
afterSetGoals ==
    /\ monthlyDataOrder' =
          Render(records, monthlyDataMonths(records), activeTab)
    /\ goalsEffect(goals')
    /\ UNCHANGED <<records, status, activeTab, locale>>

-----------------------------------------------------------------------------
(* Operations *)

\* prev after an updater that writes the new fields into prev's own record
prevWrittenInPlace(prev, next) == next

\* the array prev that setRecords passed to the updater of lines 95-99 or
\* 104-108, after the updater returned next: map builds a new array and the
\* spreads a new record for the one that changes; nothing is written to prev
\* or to its records
prevAfterSetRecords(prev, next) == prev

\* the same for the updater of lines 113-116: the spreads build a new map
\* and a new entry
prevAfterSetGoals(prev, next) == prev

\* a record of the stored array that lines 10, 59 and 60 cannot read
Unreadable(r) == ~({"habits", "metrics"} \subseteq DOMAIN r)

\* the first render throws a TypeError: a record without habits or metrics
\* (calculateStreak, the totals), or no goal for a month (line 84)
RenderThrows(recs, gls) ==
    \/ \E i \in DOMAIN recs : Unreadable(recs[i])
    \/ \E k \in 1..Len(monthsList) : monthsList[k] \notin DOMAIN gls

\* the mount of App: the initialisers of lines 21-34, the first render and
\* the two effects.  An exception of an initialiser or of the render leaves
\* nothing mounted.
Mount ==
    /\ status = "start"
    /\ LET savedRecords == localStorage[RecordsKey]
           savedGoals == localStorage[GoalsKey]
           parsedRecords == JSONparse(savedRecords)
           parsedGoals == JSONparse(savedGoals)
           recs == IF Truthy(savedRecords) THEN parsedRecords.value
                   ELSE generateInitialData(CurrentYear)
           gls == IF Truthy(savedGoals) THEN parsedGoals.value
                  ELSE initialGoals
       IN  IF \/ Truthy(savedRecords) /\ parsedRecords.throws
              \/ Truthy(savedGoals) /\ parsedGoals.throws
              \/ RenderThrows(recs, gls)
           THEN /\ status' = "crashed"
                /\ UNCHANGED <<records, goals, localStorage, activeTab,
                               monthlyDataOrder, locale>>
           ELSE /\ status' = "running"
                /\ records' = recs
                /\ goals' = gls
                /\ monthlyDataOrder' =
                      Render(recs, monthlyDataMonths(recs), activeTab)
                /\ localStorage' =
                      [k \in {RecordsKey, GoalsKey} |->
                          IF k = RecordsKey THEN JSONstringify(recs)
                          ELSE JSONstringify(gls)]
                /\ UNCHANGED <<activeTab, locale>>

\* handleHabitChange with the edited record moved to the end of the array
handleHabitChangeMoveLast(id, habit, value) ==
    /\ status = "running"
    /\ records' =
          SelectSeq(records, LAMBDA r : r.id # id) \o
          [ i \in 1..Len(SelectSeq(records, LAMBDA r : r.id = id)) |->
              [SelectSeq(records, LAMBDA r : r.id = id)[i]
                  EXCEPT !.isFilled = TRUE, !.habits[habit] = value] ]
    /\ afterSetRecords

\* handleHabitChange without isFilled: true
handleHabitChangeNoFill(id, habit, value) ==
    /\ status = "running"
    /\ records' = [ i \in 1..Len(records) |->
                      IF records[i].id = id
                      THEN [records[i] EXCEPT !.habits[habit] = value]
                      ELSE records[i] ]
    /\ afterSetRecords

\* handleHabitChange with isFilled: value for isFilled: true
handleHabitChangeFillIfDone(id, habit, value) ==
    /\ status = "running"
    /\ records' = [ i \in 1..Len(records) |->
                      IF records[i].id = id
                      THEN [records[i] EXCEPT !.isFilled = value,
                                              !.habits[habit] = value]
                      ELSE records[i] ]
    /\ afterSetRecords

handleHabitChange(id, habit, value) ==
    /\ status = "running"
    /\ records' = [ i \in 1..Len(records) |->
                      IF records[i].id = id
                      THEN [records[i] EXCEPT !.isFilled = TRUE,
                                              !.habits[habit] = value]
                      ELSE records[i] ]
    /\ afterSetRecords

\* handleMetricChange without isFilled: true
handleMetricChangeNoFill(id, metric, value) ==
    LET numValue == Min(MaxHours, Max(0, ParseOrZero(value)))
    IN  /\ status = "running"
        /\ records' = [ i \in 1..Len(records) |->
                          IF records[i].id = id
                          THEN [records[i] EXCEPT !.metrics[metric] = numValue]
                          ELSE records[i] ]
        /\ afterSetRecords

\* handleMetricChange without Math.min and Math.max
handleMetricChangeNoClamp(id, metric, value) ==
    LET numValue == ParseOrZero(value)
    IN  /\ status = "running"
        /\ records' = [ i \in 1..Len(records) |->
                          IF records[i].id = id
                          THEN [records[i] EXCEPT !.isFilled = TRUE,
                                                  !.metrics[metric] = numValue]
                          ELSE records[i] ]
        /\ afterSetRecords

\* handleMetricChange without ...r.metrics: the other metric is lost
handleMetricChangeNoSpread(id, metric, value) ==
    LET numValue == Min(MaxHours, Max(0, ParseOrZero(value)))
    IN  /\ status = "running"
        /\ records' = [ i \in 1..Len(records) |->
                          IF records[i].id = id
                          THEN [records[i] EXCEPT
                                  !.isFilled = TRUE,
                                  !.metrics = [k \in MetricKeys |->
                                      IF k = metric THEN numValue ELSE 0]]
                          ELSE records[i] ]
        /\ afterSetRecords

handleMetricChange(id, metric, value) ==
    LET numValue == Min(MaxHours, Max(0, ParseOrZero(value)))
    IN  /\ status = "running"
        /\ records' = [ i \in 1..Len(records) |->
                          IF records[i].id = id
                          THEN [records[i] EXCEPT !.isFilled = TRUE,
                                                  !.metrics[metric] = numValue]
                          ELSE records[i] ]
        /\ afterSetRecords

\* updateGoal with the number brought up to 0
updateGoalClamped(month, field, value) ==
    LET num == Max(0, ParseOrZero(value))
    IN  /\ status = "running"
        /\ goals' = [goals EXCEPT ![month][field] = num]
        /\ afterSetGoals

\* updateGoal that also marks the first record filled
updateGoalAndRecords(month, field, value) ==
    LET num == ParseOrZero(value)
    IN  /\ status = "running"
        /\ goals' = [goals EXCEPT ![month][field] = num]
        /\ records' = [records EXCEPT ![1].isFilled = TRUE]
        /\ monthlyDataOrder' =
              Render(records', monthlyDataMonths(records'), activeTab)
        /\ goalsEffect(goals')
        /\ UNCHANGED <<status, activeTab, locale>>

updateGoal(month, field, value) ==
    LET num == ParseOrZero(value)
    IN  /\ status = "running"
        /\ goals' = [goals EXCEPT ![month][field] = num]
        /\ afterSetGoals

\* setActiveTab(tab), line 157: a render with the cached monthlyData; no
\* render when the tab is the one shown
setActiveTab(tab) ==
    /\ status = "running"
    /\ activeTab' = tab
    /\ monthlyDataOrder' =
          IF tab = activeTab THEN monthlyDataOrder
          ELSE Render(records, monthlyDataOrder, tab)
    /\ UNCHANGED <<records, goals, localStorage, status, locale>>

-----------------------------------------------------------------------------
(* Inputs and specifications *)

\* ids that match no record
NoDayIds == {0, NumDays + 1}

\* The three handlers on the first and the last day of the year: one habit,
\* hours of 0 and 1, January's study target.
DayIds == {1, NumDays} \cup NoDayIds

SetHabit ==
    \E id \in DayIds, value \in BOOLEAN :
        handleHabitChange(id, "workout", value)

SetMetric ==
    \E id \in DayIds, metric \in MetricKeys, value \in {<<"a", "b", "c">>, <<"1">>} :
        handleMetricChange(id, metric, value)

SetGoal ==
    \E value \in {<< >>, <<"5">>} : updateGoal("January", "studyTarget", value)

Next == SetHabit \/ SetMetric \/ SetGoal

Spec == Init /\ [][Next]_vars

\* Streaks: two habits on the first days and the last day; a metric edit
\* only marks the day filled.
StreakDayIds == (1..MaxStreakDays) \cup {NumDays} \cup NoDayIds

StreakSetHabit ==
    \E id \in StreakDayIds, habit \in {"noPorn", "workout"}, value \in BOOLEAN :
        handleHabitChange(id, habit, value)

StreakSetMetric ==
    \E id \in StreakDayIds : handleMetricChange(id, "studyHours", << >>)

NextStreak == StreakSetHabit \/ StreakSetMetric

SpecStreak == Init /\ [][NextStreak]_vars

\* Hours: both metrics on the first days and the last day, hours of 0 and 1;
\* a habit edit fills a day that has no hours.
HoursDayIds == (1..MaxHoursDays) \cup {NumDays} \cup NoDayIds

HoursSetHabit ==
    \E id \in HoursDayIds, value \in BOOLEAN :
        handleHabitChange(id, "workout", value)

HoursSetMetric ==
    \E id \in HoursDayIds, metric \in MetricKeys,
       value \in {<<"a", "b", "c">>, <<"1">>} :
        handleMetricChange(id, metric, value)

NextHours == HoursSetHabit \/ HoursSetMetric

SpecHours == Init /\ [][NextHours]_vars

\* Goal compliance: hours of 0, 1 and 24 on the first and the last day
\* (January and December), January's target and limit edited.
GoalsSetMetric ==
    \E id \in DayIds, metric \in MetricKeys,
       value \in {<< >>, <<"1">>, <<"3", "0">>} :
        handleMetricChange(id, metric, value)

\* a goal is typed as "", "-10" or "16"
GoalTexts == {<< >>, <<"-", "1", "0">>, <<"1", "6">>}

GoalsSetGoal ==
    \E field \in GoalFields, value \in GoalTexts :
        updateGoal("January", field, value)

NextGoals == GoalsSetMetric \/ GoalsSetGoal

SpecGoals == Init /\ [][NextGoals]_vars

\* Edits of the records: one habit and both metrics on the first and the
\* last day and on two ids that match no record; the hours are typed as "",
\* "x", "1", "30" and "-5".
MetricTexts == {<< >>, <<"x">>, <<"1">>, <<"3", "0">>, <<"-", "5">>}

EditSetHabit ==
    \E id \in DayIds, value \in BOOLEAN :
        handleHabitChange(id, "workout", value)

EditSetMetric ==
    \E id \in DayIds, metric \in MetricKeys, value \in MetricTexts :
        handleMetricChange(id, metric, value)

NextEdit == EditSetHabit \/ EditSetMetric

SpecEdit == Init /\ [][NextEdit]_vars

\* The start of a session.  localStorage holds, under each key, nothing, a
\* text that is not JSON, the document an earlier session saved, or JSON
\* of another shape: an empty array for the records, a goal map without
\* January for the goals.  Nothing is mounted yet.
EditedRecords ==
    [generateInitialData(CurrentYear) EXCEPT
        ![1].isFilled = TRUE, ![1].metrics["studyHours"] = 2]

EditedGoals == [initialGoals EXCEPT !["January"].studyTarget = 16]

GoalsWithoutJanuary == [m \in MonthNames \ {"January"} |-> initialGoals[m]]

SavedRecordsItems ==
    { Null, Unparseable,
      JSONstringify(generateInitialData(CurrentYear)),
      JSONstringify(EditedRecords),
      JSONstringify(<< >>) }

SavedGoalsItems ==
    { Null, Unparseable,
      JSONstringify(initialGoals),
      JSONstringify(EditedGoals),
      JSONstringify(GoalsWithoutJanuary) }

InitStart ==
    /\ status = "start"
    /\ records = << >>
    /\ goals = << >>
    /\ activeTab = "dashboard"
    /\ monthlyDataOrder = << >>
    /\ locale = "en-US"
    /\ \E r \in SavedRecordsItems, g \in SavedGoalsItems :
          localStorage =
              [k \in {RecordsKey, GoalsKey} |-> IF k = RecordsKey THEN r ELSE g]

StartSetMetric ==
    \E id \in {1, NumDays}, value \in {<< >>, <<"1">>} :
        handleMetricChange(id, "studyHours", value)

StartSetGoal ==
    \E value \in {<< >>, <<"5">>} : updateGoal("January", "wasteLimit", value)

NextStart == Mount \/ StartSetMetric \/ StartSetGoal

SpecStart == InitStart /\ [][NextStart]_vars

\* The monthly grid: study hours of 0, 1 and 2 on the first and the last day
\* (January and December), January's study target, and the three tabs.
GridSetMetric ==
    \E id \in DayIds, value \in {<< >>, <<"1">>, <<"2">>} :
        handleMetricChange(id, "studyHours", value)

GridSetGoal ==
    \E value \in {<< >>, <<"5">>} : updateGoal("January", "studyTarget", value)

GridSetTab == \E tab \in Tabs : setActiveTab(tab)

NextGrid == GridSetMetric \/ GridSetGoal \/ GridSetTab

SpecGrid == Init /\ [][NextGrid]_vars

-----------------------------------------------------------------------------
(* Properties of the streak calculator *)

Days == 1..NumDays

\* the day numbers of the records whose flag habit is true
TrueDays(recs, habit) ==
    {recs[i].dayNumber : i \in {j \in DOMAIN recs : recs[j].habits[habit]}}

\* the day numbers of the filled records
FilledDays(recs) ==
    {recs[i].dayNumber : i \in {j \in DOMAIN recs : recs[j].isFilled}}

SetMax(S) == CHOOSE x \in S : \A y \in S : y <= x

\* the length of the longest run of consecutive days in T
LongestRun(T) ==
    CHOOSE n \in 0..Cardinality(T) :
        /\ n = 0 \/ \E d \in T : (d..(d + n - 1)) \subseteq T
        /\ \A d \in T : ~((d..(d + n)) \subseteq T)

\* the filled days after the last filled day whose flag habit is false
DaysSinceBreak(recs, habit) ==
    LET F == FilledDays(recs)
        breaks == F \ TrueDays(recs, habit)
    IN  IF breaks = {} THEN F ELSE {d \in F : d > SetMax(breaks)}

Filled(recs, d) == recs[d].isFilled

Done(recs, d, habit) == recs[d].habits[habit]

\* C1: for every habit, max is the length of the longest run of consecutive
\* records, in day order, whose flag is true; a record whose flag is false
\* (every unfilled day is one) ends the run, and a run that reaches the last
\* record is counted.
C1_MaxIsLongestRun ==
    \A h \in HabitKeys :
        calculateStreak(records, h).max = LongestRun(TrueDays(records, h))

\* C1 witness: workout done on days 1 and 2, day 3 filled without it, and
\* done on the last day of the year: max is 2, and the run of the last record
\* is a run of 1.
C1_Witness ==
    /\ Done(records, 1, "workout") /\ Done(records, 2, "workout")
    /\ Filled(records, 3) /\ ~Done(records, 3, "workout")
    /\ Done(records, NumDays, "workout")
    /\ calculateStreak(records, "workout").max = 2
    /\ ~Done(records, NumDays, "noPorn")
    /\ Done(records, 3, "noPorn")
    /\ calculateStreak(records, "noPorn").max = 1

\* C2: for every habit, current is the number of filled records counted
\* from the latest filled day downward up to the first filled record whose
\* flag is false; unfilled records neither count nor break; it is 0 when no
\* record is filled or the latest filled record has the flag false.
C2_CurrentCountsBackFromLatestFilled ==
    \A h \in HabitKeys :
        LET c == calculateStreak(records, h).current
            F == FilledDays(records)
        IN  /\ c = Cardinality(DaysSinceBreak(records, h))
            /\ F = {} => c = 0
            /\ (F # {} /\ ~Done(records, SetMax(F), h)) => c = 0

\* C2 witness: workout done on day 1 and on the last day, the two days
\* between them that the session could edit left unfilled: current is 2.
C2_Witness ==
    /\ FilledDays(records) = {1, NumDays}
    /\ Done(records, 1, "workout") /\ Done(records, NumDays, "workout")
    /\ calculateStreak(records, "workout").current = 2

\* the records with day d back to unfilled
Without(recs, d) == [recs EXCEPT ![d].isFilled = FALSE]

\* the latest filled day, 0 when no day is filled
LatestFilled(recs) ==
    IF FilledDays(recs) = {} THEN 0 ELSE SetMax(FilledDays(recs))

\* a step that sets habit h to true on day d, where it was false
TurnsOn(d, h) ==
    /\ d \in Days
    /\ ~Done(records, d, h)
    /\ Done(records', d, h)
    /\ handleHabitChange(d, h, TRUE)

\* C3 as stated: setting h to true on the latest filled day, where it was
\* false, leaves current as it was or adds exactly 1 to it.
C3_AsStated ==
    [][ LET d == LatestFilled(records)
        IN  \A h \in HabitKeys :
              TurnsOn(d, h) =>
                  calculateStreak(records', h).current \in
                      { calculateStreak(records, h).current,
                        calculateStreak(records, h).current + 1 } ]_vars

\* C3 amended: setting h to true on the latest filled day, where it was
\* false, takes current from 0 to 1 plus the current streak of the filled
\* days before that day: it grows by at least 1 and never decreases.
C3_TurnOnLatestExtends ==
    [][ LET d == LatestFilled(records)
        IN  \A h \in HabitKeys :
              TurnsOn(d, h) =>
                  LET before == calculateStreak(records, h).current
                      after == calculateStreak(records', h).current
                  IN  /\ before = 0
                      /\ after =
                           1 + calculateStreak(Without(records, d), h).current
                      /\ after >= before + 1 ]_vars

\* C3 witness: day 3 is the latest filled day and workout is done on days
\* 1, 2 and 3: turning it on for day 3 took current from 0 to 3.
C3_Witness ==
    /\ FilledDays(records) = {1, 2, 3}
    /\ \A d \in {1, 2, 3} : Done(records, d, "workout")
    /\ calculateStreak(records, "workout").current = 3

\* an unfilled day lies between two days of the current streak
GapInCurrent(recs, habit) ==
    LET S == DaysSinceBreak(recs, habit)
    IN  \E a \in S, b \in S : \E d \in (a + 1)..(b - 1) : ~Filled(recs, d)

\* C4: current can exceed max (the witness is such a state), and it does
\* only when an unfilled day lies between two filled days of the current
\* streak: current skips it, max takes it for a break.
C4_CurrentAboveMaxOnlyOverGap ==
    \A h \in HabitKeys :
        calculateStreak(records, h).current > calculateStreak(records, h).max
            => GapInCurrent(records, h)

\* C4 witness: a record collection reached by the edits with current > max.
C4_Witness ==
    \E h \in HabitKeys :
        calculateStreak(records, h).current > calculateStreak(records, h).max

-----------------------------------------------------------------------------
(* Properties of the goal compliance evaluator and the scores *)

\* r is n/d (d > 0) rounded to the nearest integer, a half rounded up
IsRound(r, n, d) == d > 0 /\ 2 * r * d - d <= 2 * n /\ 2 * n < 2 * r * d + d

\* q is the integer k
IsInt(q, k) == q.d = 1 /\ q.n = k

Months == 1..Len(monthsList)

Entry(k) == monthlyData(records, goals)[k]

\* C5: for every month, achievement is exactly 100 when actualStudy >=
\* studyTarget (so whenever studyTarget is 0), and otherwise is
\* round(actualStudy / studyTarget * 100); it is 0 for 0 hours against 150.
C5_Achievement ==
    \A k \in Months :
        LET e == Entry(k)
        IN  /\ e.month = monthsList[k]
            /\ e.goalStudy = goals[monthsList[k]].studyTarget
            /\ e.actualStudy >= e.goalStudy => IsInt(e.achievement, 100)
            /\ e.goalStudy = 0 => IsInt(e.achievement, 100)
            /\ e.actualStudy < e.goalStudy =>
                   /\ e.achievement.d = 1
                   /\ IsRound(e.achievement.n, 100 * e.actualStudy, e.goalStudy)
            /\ (e.actualStudy = 0 /\ e.goalStudy = 150) =>
                   IsInt(e.achievement, 0)

\* C5 witness: a month with hours logged below its target, whose
\* achievement is a rounded quotient (1 hour against 150 is 1, not 0), and a
\* month whose target is 0.
C5_Witness ==
    /\ \E k \in Months :
          /\ Entry(k).actualStudy = 1 /\ Entry(k).goalStudy = 150
          /\ IsInt(Entry(k).achievement, 1)
    /\ \E k \in Months :
          Entry(k).goalStudy = 0 /\ IsInt(Entry(k).achievement, 100)

\* C6: for every month, wasteCompliance is exactly 100 when actualWaste <=
\* wasteLimit, and otherwise is max(0, round((1 - (actualWaste - wasteLimit)
\* / d) * 100)) with d the wasteLimit clamped to a minimum of 1, for every
\* wasteLimit that updateGoal can store, 0 and negative values included.
C6_WasteComplianceClamped ==
    \A k \in Months :
        LET e == Entry(k)
            d == Max(1, e.limitWaste)
            n == 100 * (d - (e.actualWaste - e.limitWaste))
        IN  /\ e.limitWaste = goals[monthsList[k]].wasteLimit
            /\ e.actualWaste <= e.limitWaste => IsInt(e.wasteCompliance, 100)
            /\ e.actualWaste > e.limitWaste =>
                   /\ e.wasteCompliance.d = 1
                   /\ IF 2 * n < d
                      THEN e.wasteCompliance.n = 0
                      ELSE IsRound(e.wasteCompliance.n, n, d)

\* q is a percentage
IsPercent(q) == q.d = 1 /\ q.n \in 0..100

\* C7: in every reachable state, each month's achievement and
\* wasteCompliance lie in [0, 100], whatever targets and limits updateGoal
\* has stored.
C7_PercentagesInRange ==
    \A k \in Months :
        IsPercent(Entry(k).achievement) /\ IsPercent(Entry(k).wasteCompliance)

\* the divisions the derived computations evaluate in this state
Divisions ==
    AvgDivisions(records) \cup ProductivityDivisions(records)
        \cup UNION {MonthDivisions(records, goals, monthsList[k]) : k \in Months}

\* C8: in no reachable state does a derived computation (the average, the
\* productivity score, achievement, wasteCompliance) divide by 0 or yield
\* a non-finite result.
C8_NoDivisionByZero ==
    /\ \A nd \in Divisions : nd[2] # 0
    /\ IsFinite(productivityScore(records))
    /\ \A k \in Months :
          IsFinite(Entry(k).achievement) /\ IsFinite(Entry(k).wasteCompliance)

RECURSIVE HoursOn(_, _, _)
\* the hours of metric logged on the days of D
HoursOn(recs, D, metric) ==
    IF D = {} THEN 0
    ELSE LET d == CHOOSE x \in D : TRUE
         IN  recs[d].metrics[metric] + HoursOn(recs, D \ {d}, metric)

\* the indices of the filled records
FilledIdx(recs) == {i \in DOMAIN recs : recs[i].isFilled}

\* C9 as stated: the average is the hours studied on the filled days divided
\* by the number of filled days, and 0 when no day is filled.
C9_AsStated ==
    LET F == FilledIdx(records)
        avg == avgStudyPerDay(records)
    IN  /\ F = {} => avg.tenths = 0
        /\ F # {} =>
               avg.tenths * Cardinality(F) = 10 * HoursOn(records, F, "studyHours")

\* C9 amended: the average is the string toFixed(1) gives for the hours
\* studied on the filled days divided by the number of filled days, that is
\* the quotient rounded to one decimal place, and the number 0 when no day
\* is filled.
C9_AverageToOneDecimal ==
    LET F == FilledIdx(records)
        avg == avgStudyPerDay(records)
    IN  /\ F = {} => avg = [type |-> "number", tenths |-> 0]
        /\ F # {} =>
               /\ avg.type = "string"
               /\ IsRound(avg.tenths, 10 * HoursOn(records, F, "studyHours"),
                          Cardinality(F))

\* C9 witness: 1 hour studied over 3 filled days: the average reads "0.3".
C9_Witness ==
    /\ Cardinality(FilledIdx(records)) = 3
    /\ HoursOn(records, FilledIdx(records), "studyHours") = 1
    /\ avgStudyPerDay(records) = [type |-> "string", tenths |-> 3]

\* C10: the productivity score is round(totalStudy / (totalStudy +
\* totalWasted) * 100), exactly 0 when both totals are 0, and in [0, 100].
C10_ProductivityScore ==
    LET study == totalStudyHours(records)
        wasted == totalWastedHours(records)
        score == productivityScore(records)
    IN  /\ IsPercent(score)
        /\ study + wasted = 0 => IsInt(score, 0)
        /\ study + wasted > 0 => IsRound(score.n, 100 * study, study + wasted)

\* C10 witness: 2 hours studied and 1 wasted: the score is 67.
C10_Witness ==
    /\ totalStudyHours(records) = 2
    /\ totalWastedHours(records) = 1
    /\ IsInt(productivityScore(records), 67)

-----------------------------------------------------------------------------
(* Properties of the record store *)

\* the indices of the records with hours of metric logged
LoggedIdx(recs, metric) == {i \in DOMAIN recs : recs[i].metrics[metric] # 0}

\* C11: totalStudyHours and totalWastedHours are the sums of studyHours and
\* of timeWasted over all 365 records: the hours of the records that hold
\* any, the other records adding 0.
C11_TotalsAreSums ==
    /\ Len(records) = NumDays
    /\ totalStudyHours(records) =
          HoursOn(records, LoggedIdx(records, "studyHours"), "studyHours")
    /\ totalWastedHours(records) =
          HoursOn(records, LoggedIdx(records, "timeWasted"), "timeWasted")

\* C11 witness: 24 hours studied on day 1 and 1 hour on day 365, 1 hour
\* wasted on day 365: the totals are 25 and 1.
C11_Witness ==
    /\ records[1].metrics["studyHours"] = 24
    /\ records[NumDays].metrics["studyHours"] = 1
    /\ records[NumDays].metrics["timeWasted"] = 1
    /\ totalStudyHours(records) = 25
    /\ totalWastedHours(records) = 1

\* C12: the collection holds exactly 365 records, the record at position i
\* has id = dayNumber = i, so there is one record for each day of 1..365,
\* none twice, in ascending dayNumber order, whatever ids the edits named.
C12_OneRecordPerDay ==
    /\ Len(records) = NumDays
    /\ \A i \in 1..Len(records) :
          records[i].id = i /\ records[i].dayNumber = i
    /\ {records[i].dayNumber : i \in 1..Len(records)} = 1..NumDays
    /\ \A i \in 1..(Len(records) - 1) :
          records[i].dayNumber < records[i + 1].dayNumber

\* C12 witness: the first and the last record have been edited, a habit on
\* one and a metric on the other.
C12_Witness ==
    /\ Len(records) = NumDays
    /\ Done(records, 1, "workout")
    /\ records[NumDays].metrics["studyHours"] = 1
    /\ FilledDays(records) = {1, NumDays}

\* C13: a record that is filled is still filled after every step, be it
\* an edit of a habit (to false too), of a metric (to 0 too) or of a goal.
C13_IsFilledMonotonic ==
    [][ \A i \in DOMAIN records :
            records[i].isFilled =>
                i \in DOMAIN records' /\ records'[i].isFilled ]_vars

\* C13 witness: day 1 is filled and holds nothing (its habit is off and its
\* hours are 0), as after edits that took back what was logged, and a goal
\* has been edited.
C13_Witness ==
    /\ Filled(records, 1)
    /\ \A h \in HabitKeys : ~Done(records, 1, h)
    /\ \A m \in MetricKeys : records[1].metrics[m] = 0
    /\ Done(records, NumDays, "workout")
    /\ goals["January"].studyTarget = 0

\* the number a text of MetricTexts spells, 0 for a text that spells none
MetricTextValue(t) ==
    CASE t = <<"1">> -> 1
      [] t = <<"3", "0">> -> 30
      [] t = <<"-", "5">> -> -5
      [] OTHER -> 0

\* v brought into [0, 24]
InRange(v) == IF v < 0 THEN 0 ELSE IF v > 24 THEN 24 ELSE v

\* C14: every record's studyHours and timeWasted lie in [0, 24] in every
\* state, and handleMetricChange on a record stores the number typed
\* brought into [0, 24], which is 0 for an empty or invalid text.
C14_MetricsClamped ==
    /\ [](\A i \in DOMAIN records : \A m \in MetricKeys :
              records[i].metrics[m] \in 0..24)
    /\ [][ \A id \in DayIds \cap DOMAIN records, m \in MetricKeys,
               t \in MetricTexts :
              \/ /\ id \in DOMAIN records'
                 /\ records'[id].metrics[m] = InRange(MetricTextValue(t))
              \/ ~handleMetricChange(id, m, t) ]_vars

\* C14 witness: "30" was typed for a day, which holds 24, and another
\* filled day holds 0 hours.
C14_Witness ==
    /\ records[1].metrics["studyHours"] = 24
    /\ Filled(records, NumDays)
    /\ records[NumDays].metrics["studyHours"] = 0
    /\ records[NumDays].metrics["timeWasted"] = 1

\* the records after an edit of record d that sets isFilled and one habit,
\* and leaves all else as it is; the records as they are when d is no record
WithHabit(recs, d, h, v) ==
    IF d \in DOMAIN recs
    THEN [recs EXCEPT ![d].isFilled = TRUE, ![d].habits[h] = v]
    ELSE recs

\* the same for one metric
WithMetric(recs, d, m, x) ==
    IF d \in DOMAIN recs
    THEN [recs EXCEPT ![d].isFilled = TRUE, ![d].metrics[m] = x]
    ELSE recs

\* C15: handleHabitChange(d, h, v) and handleMetricChange(d, m, x) change
\* only record d: the habit or metric named takes the new value and isFilled
\* becomes true; the id, dayNumber, date, other habits and other metrics of
\* record d, every other record and the goals stay as they are; when d
\* matches no record the collection stays as it is.
C15_EditChangesOneRecord ==
    [][ /\ \A d \in DayIds, v \in BOOLEAN :
              \/ /\ d \in DOMAIN records => records'[d].habits["workout"] = v
                 /\ records' = WithHabit(records, d, "workout", v)
                 /\ goals' = goals
              \/ ~handleHabitChange(d, "workout", v)
        /\ \A d \in DayIds, m \in MetricKeys, t \in MetricTexts :
              \/ /\ d \in DOMAIN records =>
                        records'[d].metrics[m] = InRange(MetricTextValue(t))
                 /\ records' =
                        WithMetric(records, d, m, InRange(MetricTextValue(t)))
                 /\ goals' = goals
              \/ ~handleMetricChange(d, m, t) ]_vars

\* C15 witness: day 1 holds a habit and both metrics, each set by an edit
\* of its own that kept the others, and day 365 was never touched.
C15_Witness ==
    /\ Done(records, 1, "workout")
    /\ records[1].metrics["studyHours"] = 24
    /\ records[1].metrics["timeWasted"] = 1
    /\ records[1].id = 1 /\ records[1].dayNumber = 1
    /\ records[1].date = [month |-> "Jan", day |-> 1, year |-> CurrentYear]
    /\ ~Filled(records, NumDays)

-----------------------------------------------------------------------------
(* Properties of the goal configuration *)

\* the number a text of GoalTexts spells, 0 for the empty text
GoalTextValue(t) ==
    CASE t = <<"-", "1", "0">> -> -10
      [] t = <<"1", "6">> -> 16
      [] OTHER -> 0

\* C16: the goals start with studyTarget 150 and wasteLimit 30 for each of
\* the 12 months; they always hold exactly one entry for each month of
\* monthsList; updateGoal(month, field, x) replaces that month's field by
\* the number typed, negative or not, and by 0 for an empty text, and
\* leaves every other field, every other month and the records as they are.
C16_GoalsConfiguration ==
    /\ goals = [m \in MonthNames |->
                  [month |-> m, studyTarget |-> 150, wasteLimit |-> 30]]
    /\ [](/\ DOMAIN goals = MonthNames
          /\ Cardinality(DOMAIN goals) = 12
          /\ \A m \in DOMAIN goals :
                /\ DOMAIN goals[m] = {"month", "studyTarget", "wasteLimit"}
                /\ goals[m].month = m)
    /\ [][ \A field \in GoalFields, t \in GoalTexts :
              \/ /\ goals' = [goals EXCEPT
                                 !["January"][field] = GoalTextValue(t)]
                 /\ records' = records
              \/ ~updateGoal("January", field, t) ]_vars

\* C16 witness: January's target is -10 and its limit 0 after two edits,
\* and February still has the defaults.
C16_Witness ==
    /\ goals["January"] =
          [month |-> "January", studyTarget |-> -10, wasteLimit |-> 0]
    /\ goals["February"] =
          [month |-> "February", studyTarget |-> 150, wasteLimit |-> 30]

-----------------------------------------------------------------------------
(* Properties of the persistence *)

\* a stored item that is present and is not the JSON text of 365 day
\* records
MalformedRecords(item) ==
    \/ item.kind = "text"
    \/ /\ item.kind = "json"
       /\ \/ Len(item.value) # NumDays
          \/ \E i \in DOMAIN item.value : Unreadable(item.value[i])

\* a stored item that is present and is not the JSON text of a goal for
\* each of the 12 months
MalformedGoals(item) ==
    \/ item.kind = "text"
    \/ item.kind = "json" /\ DOMAIN item.value # MonthNames

\* C17: the mount always ends with the component running, and a stored
\* document that is present but malformed (not JSON, or JSON of another
\* shape) is treated as absent: the records are then the 365 records of
\* generateInitialData, the goals the default goals.
C17_MalformedTreatedAsAbsent ==
    [][ status = "start" =>
          /\ status' = "running"
          /\ MalformedRecords(localStorage[RecordsKey]) =>
                 records' = generateInitialData(CurrentYear)
          /\ MalformedGoals(localStorage[GoalsKey]) =>
                 goals' = initialGoals ]_vars

\* the study hours of each month in the records recs
StudyByMonth(recs) == [m \in MonthNames |-> MonthStats(recs, m).study]

\* the months of order come in descending order of their study hours
Descending(order, study) ==
    \A k \in 1..(Len(order) - 1) : study[order[k]] >= study[order[k + 1]]

\* C18: while the component runs, each stored document is the JSON text of
\* the value in memory and parses back to it; a step that changes the
\* records or the goals stores the new value, not the one before; and what
\* a render derives comes from the values in memory after the step: the
\* order the analytics tab leaves the grid in is that of the new records.
C18_SaveFollowsMutation ==
    /\ [](status = "running" =>
            /\ localStorage[RecordsKey] = JSONstringify(records)
            /\ localStorage[GoalsKey] = JSONstringify(goals)
            /\ JSONparse(localStorage[RecordsKey]) =
                  [throws |-> FALSE, value |-> records]
            /\ JSONparse(localStorage[GoalsKey]) =
                  [throws |-> FALSE, value |-> goals])
    /\ [][ /\ records' # records =>
                 /\ localStorage'[RecordsKey] = JSONstringify(records')
                 /\ localStorage'[RecordsKey] # localStorage[RecordsKey]
           /\ goals' # goals =>
                 /\ localStorage'[GoalsKey] = JSONstringify(goals')
                 /\ localStorage'[GoalsKey] # localStorage[GoalsKey]
           /\ activeTab' = "analytics" =>
                 Descending(monthlyDataOrder', StudyByMonth(records')) ]_vars

\* C18 witness: hours logged and a goal edited, both in memory and in the
\* stored documents, with the analytics tab shown.
C18_Witness ==
    /\ records[NumDays].metrics["studyHours"] = 2
    /\ goals["January"].studyTarget = 5
    /\ activeTab = "analytics"
    /\ localStorage[RecordsKey].kind = "json"
    /\ localStorage[RecordsKey].value[NumDays].metrics["studyHours"] = 2
    /\ localStorage[GoalsKey].value["January"].studyTarget = 5

-----------------------------------------------------------------------------
(* Properties of the monthly grid *)

\* the months in which some record holds hours
LoggedMonths(recs) ==
    { getMonthName(recs[i].date) :
        i \in LoggedIdx(recs, "studyHours") \cup LoggedIdx(recs, "timeWasted") }

\* C19: the monthly grid holds exactly 12 entries, one for each month of
\* monthsList and none twice; the entry of a month without logged hours is
\* there with totals 0.
C19_TwelveMonthGrid ==
    /\ Len(monthlyDataOrder) = 12
    /\ {monthlyDataOrder[k] : k \in 1..Len(monthlyDataOrder)} = MonthNames
    /\ Cardinality(MonthNames) = 12
    /\ \A k \in 1..Len(monthlyDataOrder) :
          LET e == monthlyDataMemo[k]
          IN  /\ e.month = monthlyDataOrder[k]
              /\ e.month \notin LoggedMonths(records) =>
                     e.actualStudy = 0 /\ e.actualWaste = 0

\* C19 witness: hours are logged in December only; the grid holds January
\* with totals 0 and December with 2 hours.
C19_Witness ==
    /\ LoggedMonths(records) = {"December"}
    /\ \E k \in 1..Len(monthlyDataOrder) :
          /\ monthlyDataMemo[k].month = "January"
          /\ monthlyDataMemo[k].actualStudy = 0
    /\ \E k \in 1..Len(monthlyDataOrder) :
          /\ monthlyDataMemo[k].month = "December"
          /\ monthlyDataMemo[k].actualStudy = 2

\* C20: the monthly grid its consumers read is in the order of monthsList,
\* January to December, in every state, also once the analytics tab has
\* sorted it for the top month.
C20_GridInCalendarOrder ==
    status = "running" => monthlyDataOrder = monthsList


\* The runtime's default locale: the component starts as in Init in a
\* runtime whose default locale is any of Locales, and hours are logged on
\* the first and the last day.
InitLocale ==
    /\ records = generateInitialData(CurrentYear)
    /\ goals = initialGoals
    /\ localStorage =
          [k \in {RecordsKey, GoalsKey} |->
              IF k = RecordsKey
              THEN JSONstringify(generateInitialData(CurrentYear))
              ELSE JSONstringify(initialGoals)]
    /\ status = "running"
    /\ activeTab = "dashboard"
    /\ monthlyDataOrder = monthsList
    /\ locale \in Locales

LocaleSetMetric ==
    \E id \in DayIds, metric \in MetricKeys,
       value \in {<< >>, <<"1">>, <<"2">>} :
        handleMetricChange(id, metric, value)

NextLocale == LocaleSetMetric

SpecLocale == InitLocale /\ [][NextLocale]_vars

-----------------------------------------------------------------------------
(* Further properties of the streak calculator *)

\* C21: on the fresh store, where none of the 365 records is filled and
\* every habit is false, calculateStreak returns current = 0 and max = 0 for
\* each of the four habits.
C21_FreshStoreStreaks ==
    (status = "running" /\ FilledDays(records) = {}) =>
        \A h \in HabitKeys :
            calculateStreak(records, h) = [current |-> 0, max |-> 0]

\* C21 witness: the fresh store, its four streaks computed.
C21_Witness ==
    /\ Len(records) = NumDays
    /\ \A i \in DOMAIN records :
          ~records[i].isFilled /\ \A h \in HabitKeys : ~records[i].habits[h]
    /\ streaks(records) = [h \in HabitKeys |-> [current |-> 0, max |-> 0]]

-----------------------------------------------------------------------------
(* Further properties of the record store and the derived values *)

\* C23: completedDays is the number of records with isFilled true and lies
\* in 0..365; for every count the 365 records allow, the annual goal
\* percentage round(count / 365 * 100) lies in [0, 100] and the value of the
\* sidebar equals the clamped value of ProgressTracker.
C23_AnnualGoalPercentage ==
    /\ completedDays(records) = Cardinality(FilledIdx(records))
    /\ completedDays(records) \in 0..365
    /\ Len(records) = 365
    /\ \A n \in {completedDays(records)} \cup (0..Len(records)) :
          /\ IsPercent(annualGoal(n))
          /\ IsRound(annualGoal(n).n, 100 * n, 365)
          /\ ProgressTrackerPercentage(n, TotalDays) = annualGoal(n)

\* C23 witness: two days are filled, one of them without study hours: the
\* count is 2 and both percentages read 1.
C23_Witness ==
    /\ FilledIdx(records) = {1, NumDays}
    /\ records[1].metrics["studyHours"] = 0
    /\ completedDays(records) = 2
    /\ IsInt(annualGoal(completedDays(records)), 1)
    /\ IsInt(ProgressTrackerPercentage(completedDays(records), TotalDays), 1)

\* C24: every record that is not filled has its four habits false and both
\* metrics 0, in every state reached by edits of habits and metrics.
C24_UnfilledHoldsNothing ==
    \A i \in DOMAIN records :
        ~records[i].isFilled =>
            /\ \A h \in HabitKeys : ~records[i].habits[h]
            /\ \A m \in MetricKeys : records[i].metrics[m] = 0

\* C24 witness: day 1 has been edited, a habit and hours, and day 365 is
\* still unfilled and holds nothing.
C24_Witness ==
    /\ Filled(records, 1) /\ Done(records, 1, "workout")
    /\ records[1].metrics["timeWasted"] = 24
    /\ ~Filled(records, NumDays)
    /\ \A h \in HabitKeys : ~Done(records, NumDays, h)
    /\ \A m \in MetricKeys : records[NumDays].metrics[m] = 0

C26_HoursOnNewLatestDayBreakCurrent ==
    [][ \A d \in StreakDayIds \cap Days :
            ( /\ ~Filled(records, d)
              /\ Filled(records', d)
              /\ d > LatestFilled(records)
              /\ handleMetricChange(d, "studyHours", << >>) )
            => \A h \in HabitKeys :
                   calculateStreak(records', h).current = 0 ]_vars

\* C26 witness: days 1 and 2 held a current workout streak of 2, and hours
\* were then logged on day 3, the new latest filled day.
C26_Witness ==
    /\ FilledDays(records) = {1, 2, 3}
    /\ TrueDays(records, "workout") = {1, 2}
    /\ TrueDays(records, "noPorn") = {2}
    /\ calculateStreak(records, "workout") = [current |-> 0, max |-> 2]
    /\ calculateStreak(records, "noPorn") = [current |-> 0, max |-> 1]

\* the filled days are a range of day numbers: no unfilled day lies between
\* two filled days
ContiguousFilled(recs) ==
    \A a \in FilledDays(recs), b \in FilledDays(recs) :
        \A d \in a..b : d \in FilledDays(recs)

\* C27: when the filled days form a contiguous range of day numbers, current
\* is at most max for every habit.
C27_ContiguousCurrentAtMostMax ==
    ContiguousFilled(records)
    => \A h \in HabitKeys :
           calculateStreak(records, h).current
               <= calculateStreak(records, h).max

\* C27 witness: days 1 to 3 are filled, with a current workout streak of 2
\* that is also the longest run.
C27_Witness ==
    /\ FilledDays(records) = {1, 2, 3}
    /\ TrueDays(records, "workout") = {2, 3}
    /\ TrueDays(records, "noPorn") = {1}
    /\ calculateStreak(records, "workout") = [current |-> 2, max |-> 2]
    /\ calculateStreak(records, "noPorn") = [current |-> 0, max |-> 1]

RECURSIVE SumEntries(_, _)
\* the sum of one field over the entries of a monthly grid
SumEntries(data, field) ==
    IF data = << >> THEN 0
    ELSE Head(data)[field] + SumEntries(Tail(data), field)

\* C28: the actualStudy of the 12 monthly entries adds up to totalStudyHours
\* and their actualWaste to totalWastedHours: every record is counted in
\* exactly one month.
C28_MonthlySumsEqualTotals ==
    /\ SumEntries(monthlyData(records, goals), "actualStudy")
           = totalStudyHours(records)
    /\ SumEntries(monthlyData(records, goals), "actualWaste")
           = totalWastedHours(records)

\* max for habit h, as calculateStreak returns it
MaxOf(recs, h) == calculateStreak(recs, h).max

\* the habits the steps of SpecStreak set
StreakHabits == {"noPorn", "workout"}

\* C29: setting habit h to true on a day never decreases max for h, setting
\* it to false never increases it, and a step that logs hours or sets another
\* habit leaves max for h as it was, even when it changes current for h.
\* For a habit that no step sets, max is 0 in every state, before and after
\* each step.
C29_MaxMonotoneInFlags ==
    /\ [](\A h \in HabitKeys \ StreakHabits : MaxOf(records, h) = 0)
    /\ [][ \A d \in StreakDayIds \cap Days :
            records'[d] # records[d] =>
                LET setMetric == handleMetricChange(d, "studyHours", << >>)
                    setNoPorn ==
                        handleHabitChange(d, "noPorn",
                                          Done(records', d, "noPorn"))
                    setWorkout ==
                        handleHabitChange(d, "workout",
                                          Done(records', d, "workout"))
                IN  \A h \in StreakHabits :
                        LET old == MaxOf(records, h)
                            new == MaxOf(records', h)
                        IN  /\ ( /\ ~Done(records, d, h)
                                 /\ Done(records', d, h)
                                 /\ handleHabitChange(d, h, TRUE) )
                               => new >= old
                            /\ ( /\ Done(records, d, h)
                                 /\ ~Done(records', d, h)
                                 /\ handleHabitChange(d, h, FALSE) )
                               => new <= old
                            /\ ( \/ setMetric
                                 \/ h # "noPorn" /\ setNoPorn
                                 \/ h # "workout" /\ setWorkout )
                               => new = old ]_vars

\* C29 witness: workout was done on days 1 and 2 and on day 365, and noPorn
\* then set on day 3: max for workout stays 2 while its current streak,
\* which counted days 365, 2 and 1, is cut by the newly filled day 3.
C29_Witness ==
    /\ TrueDays(records, "workout") = {1, 2, NumDays}
    /\ TrueDays(records, "noPorn") = {3}
    /\ FilledDays(records) = {1, 2, 3, NumDays}
    /\ calculateStreak(records, "workout") = [current |-> 1, max |-> 2]
    /\ calculateStreak(records, "noPorn") = [current |-> 0, max |-> 1]

-----------------------------------------------------------------------------
(* Frame of the handlers *)

\* the values derived from the records alone
DerivedFromRecords(recs) ==
    [ streaks |-> streaks(recs),
      totalStudyHours |-> totalStudyHours(recs),
      totalWastedHours |-> totalWastedHours(recs),
      avgStudyPerDay |-> avgStudyPerDay(recs),
      productivityScore |-> productivityScore(recs),
      completedDays |-> completedDays(recs),
      months |-> [m \in MonthNames |-> MonthStats(recs, m)] ]

\* C30: a step of updateGoal leaves the records and every value derived from
\* the records alone as they were; a step of handleHabitChange or
\* handleMetricChange leaves the goals as they were.
C30_HandlerFrames ==
    [][ /\ ( /\ goals' # goals
             /\ \E value \in {<< >>, <<"5">>} :
                    updateGoal("January", "studyTarget", value) )
           => /\ records' = records
              /\ DerivedFromRecords(records') = DerivedFromRecords(records)
        /\ \A id \in DayIds \cap Days :
               ( /\ records'[id] # records[id]
                 /\ \/ handleHabitChange(id, "workout",
                                          Done(records', id, "workout"))
                    \/ \E metric \in MetricKeys :
                           handleMetricChange(id, metric,
                               IF records'[id].metrics[metric] = 1
                               THEN <<"1">> ELSE <<"a", "b", "c">>) )
               => goals' = goals ]_vars

\* C30 witness: January's target was set to 0 after a study hour was logged
\* on day 1, which leaves the score of 100 and the total as they were.
C30_Witness ==
    /\ goals["January"].studyTarget = 0
    /\ FilledDays(records) = {1}
    /\ records[1].metrics["studyHours"] = 1
    /\ totalStudyHours(records) = 1
    /\ MonthStats(records, "January").study = 1
    /\ productivityScore(records) = Num(100)

=============================================================================
